---------------------------- MODULE Spec2Model ----------------------------
(***************************************************************************)
(* The fixed-priority scheduler of kernel/sched.c: the run queue (one slot  *)
(* per priority), the current-task pointer, the task control blocks the     *)
(* scheduler reads and writes, and the operations sched_init,               *)
(* sched_add_task, sched_remove_task, sched_get_next_task, sched_run,       *)
(* sched_get_current_task and sched_set_current_task.                       *)
(*                                                                          *)
(* run_queue has MAX_PRIO slots, indexes 0 .. MAX_PRIO-1, while the         *)
(* priority field and the scan index of sched_get_next_task are 8 bits      *)
(* wide (0 .. 255).  An access with index MAX_PRIO falls on the word that   *)
(* follows the array.  Which object the linker puts there is a property of  *)
(* the build: the model draws it in Init (layout) as either current_task,   *)
(* the static declared right after run_queue, or some other zero-           *)
(* initialised word (beyond).                                               *)
(*                                                                          *)
(* Besides the scheduler: task_create of kernel/task.c and task_stack_init  *)
(* of arch/task_arch.c, applied to one control block and one stack (tcb),   *)
(* with the memory task_stack_init writes kept address by address.          *)
(*                                                                          *)
(* Specifications: Spec (every operation, any caller), SpecSched and        *)
(* SpecKeepIdle (fewer callers), SpecBoot (the system booted as documented),*)
(* SpecPreempt (sched_run interrupted between selection and switch),        *)
(* SpecProtocol (callers that set their state before sched_run) and         *)
(* SpecTask (task construction).                                            *)
(***************************************************************************)
EXTENDS Integers, FiniteSets, Sequences, TLC

\* ------------------------------------------------------------------------
\* Program constants
\* ------------------------------------------------------------------------
MAX_PRIO == 255

IDLE_PRIO == 0

\* uint8_t: the width of task_t.prio and of prio_idx
UINT8_MOD == 256

NULL == "NULL"

READY == "READY"

RUNNING == "RUNNING"

BLOCKED == "BLOCKED"

task_state_t == {READY, RUNNING, BLOCKED}

idle_task == "idle_task"

\* ------------------------------------------------------------------------
\* Bounds of the model
\* ------------------------------------------------------------------------
\* how many entries of PrioTable the user tasks draw their priority from
NumPrios == 3

\* the priorities user tasks are created with: the highest slot, the idle
\* level, the 8-bit value one past the last slot, then middle levels
PrioTable == <<254, 0, 255, 5, 10, 1, 253>>

UserPrios == {PrioTable[i] : i \in 1..NumPrios}

\* the task control blocks the callers own, besides the static idle_task
UserTasks == {"A", "B"}

Tasks == {idle_task} \cup UserTasks

\* the outcome of a scan that never breaks out of its loop
DIVERGES == "DIVERGES"

\* the index value standing for "the loop never ends"
NoIndex == 0 - 1

VARIABLES
  run_queue,     \* task_t *run_queue[MAX_PRIO]
  current_task,  \* static task_t *current_task
  beyond,        \* the word after run_queue when it is not current_task
  layout,        \* which object follows run_queue in this build
  state,         \* task_t.state of every task
  prio,          \* task_t.prio of every task
  pc,            \* "boot" before sched_init, "ready", "hang", "fault"
  cpu,           \* the task whose context the core executes, from sched_init
                 \* on, in the specifications that follow it (NULL in the
                 \* others)
  frame,         \* how far the executing caller has come in a sequence of
                 \* calls that ends in sched_run, and the locals of a
                 \* sched_run that has selected its tasks and not yet switched
  tcb,           \* the control block and stack handed to task_create or
                 \* task_stack_init, and what the call made of them
  last           \* the last operation called: its name, argument, result,
                 \* and what it met (note): the pointer an add, a remove or
                 \* a set_current overwrote, and for sched_run the
                 \* current-task pointer and the state of the new task as
                 \* they were when _switch_to was called

vars == <<run_queue, current_task, beyond, layout, state, prio, pc, cpu, frame,
          tcb, last>>

Op(op, arg, ret, note) == [op |-> op, arg |-> arg, ret |-> ret, note |-> note]

Slots == 0..(MAX_PRIO - 1)

\* no sched_run is between its selection and its switch
NoFrame == [at |-> "none", prev_task |-> NULL, new_task |-> NULL]

\* no task_create or task_stack_init call is followed
NoTcb == [op |-> "none", ip |-> 0]

\* ------------------------------------------------------------------------
\* Memory around run_queue
\* ------------------------------------------------------------------------
\* the scheduler's statics as one value: q the array, cur the current-task
\* pointer, by the word beyond the array
Mem == [q |-> run_queue, cur |-> current_task, by |-> beyond]

\* the statics after an operation
Commit(mem) ==
  /\ run_queue' = mem.q
  /\ current_task' = mem.cur
  /\ beyond' = mem.by

\* the value read at run_queue[idx]; idx = MAX_PRIO reads the next word
ReadSlot(idx) ==
  IF idx < MAX_PRIO THEN run_queue[idx]
  ELSE IF layout = "current_task" THEN current_task ELSE beyond

\* run_queue[idx] = v; idx = MAX_PRIO writes the next word
Store(mem, idx, v) ==
  IF idx < MAX_PRIO THEN [mem EXCEPT !.q[idx] = v]
  ELSE IF layout = "current_task" THEN [mem EXCEPT !.cur = v]
  ELSE [mem EXCEPT !.by = v]

\* ------------------------------------------------------------------------
\* sched_get_next_task
\* ------------------------------------------------------------------------
\* a scan that starts one slot too low
ScanStart_low == MAX_PRIO - 2

\* uint8_t prio_idx = MAX_PRIO - 1
ScanStart == MAX_PRIO - 1

\* prio_idx after k executions of "prio_idx -= 1" on a uint8_t
ScanIndex(k) == (ScanStart - k) % UINT8_MOD

\* the loop "while (prio_idx >= 0)": the test is always true of a uint8_t,
\* so the loop ends only at the break.  Nothing the loop reads changes
\* while it runs, and after UINT8_MOD decrements prio_idx is back at its
\* first value: the passes at which the loop would break are
ScanBreaks == {k \in 0..(UINT8_MOD - 1) : ReadSlot(ScanIndex(k)) # NULL}

\* the index the loop leaves in prio_idx: that of the first pass that
\* breaks, and none when no pass does (the loop never ends)
ScanResult ==
  LET breaks == ScanBreaks
  IN IF breaks = {} THEN NoIndex
     ELSE ScanIndex(CHOOSE k \in breaks : \A j \in breaks : k <= j)

\* the indexes at which the loop and the return statement read run_queue:
\* those of the passes up to the first that breaks, every value of a
\* uint8_t when none does
ScanAccesses ==
  LET breaks == ScanBreaks
  IN IF breaks = {} THEN {ScanIndex(k) : k \in 0..(UINT8_MOD - 1)}
     ELSE LET first == CHOOSE k \in breaks : \A j \in breaks : k <= j
          IN {ScanIndex(k) : k \in 0..first}

\* return run_queue[prio_idx]
sched_get_next_task ==
  LET prio_idx == ScanResult
  IN IF prio_idx = NoIndex THEN DIVERGES ELSE ReadSlot(prio_idx)

\* ------------------------------------------------------------------------
\* The operations as functions of the statics
\* ------------------------------------------------------------------------
\* an add that keeps the task already stored at the priority
sched_add_task_keep(mem, task) ==
  IF ReadSlot(prio[task]) # NULL THEN mem ELSE Store(mem, prio[task], task)

\* run_queue[task->prio] = task
sched_add_task(mem, task) == Store(mem, prio[task], task)

\* a remove by identity: it clears the slot only when the slot holds the task
sched_remove_task_if_queued(mem, task) ==
  IF ReadSlot(prio[task]) = task THEN Store(mem, prio[task], NULL) ELSE mem

\* a remove that also resets the current-task pointer when it names the task
sched_remove_task_reset(mem, task) ==
  LET m == Store(mem, prio[task], NULL)
  IN IF m.cur = task THEN [m EXCEPT !.cur = idle_task] ELSE m

\* run_queue[task->prio] = NULL
sched_remove_task(mem, task) == Store(mem, prio[task], NULL)

\* return current_task
sched_get_current_task == current_task

\* a set_current that loses its store
sched_set_current_task_lost(mem, task) == mem

\* current_task = task
sched_set_current_task(mem, task) == [mem EXCEPT !.cur = task]

\* an init that also empties every other slot
sched_init_clear(mem) ==
  [mem EXCEPT !.cur = idle_task,
              !.q = [p \in Slots |-> IF p = IDLE_PRIO THEN idle_task ELSE NULL]]

\* current_task = &idle_task; sched_add_task(&idle_task)
sched_init(mem) == sched_add_task([mem EXCEPT !.cur = idle_task], idle_task)

\* task->state = new_state
task_set_state(task, new_state) == [state EXCEPT ![task] = new_state]

\* _switch_to(&prev_task->thread, &new_task->thread): the core leaves the
\* outgoing context and loads the incoming one.  With prev_task = NULL the
\* outgoing registers are stored through an address in page zero: the store
\* traps, or lands in low memory and the switch completes.
sched_switch(prev_task, new_task) ==
  /\ IF prev_task = NULL
       THEN \E trapped \in BOOLEAN : pc' = IF trapped THEN "fault" ELSE pc
       ELSE pc' = pc
  /\ cpu' = IF cpu = NULL THEN NULL ELSE new_task

\* ------------------------------------------------------------------------
\* Initial state: the statics are zero, idle_task has its initialiser, the
\* callers' task control blocks hold a priority and any state
\* ------------------------------------------------------------------------
\* A and B are interchangeable: of two assignments of priorities that differ
\* only by exchanging them, one is kept
PrioOrdered(f) ==
  \E i \in 1..NumPrios : \E j \in i..NumPrios :
    f["A"] = PrioTable[i] /\ f["B"] = PrioTable[j]

Init ==
  /\ run_queue = [p \in Slots |-> NULL]
  /\ current_task = NULL
  /\ beyond = NULL
  /\ layout \in {"current_task", "other"}
  /\ prio \in {f \in [Tasks -> UserPrios \cup {IDLE_PRIO}] :
                 f[idle_task] = IDLE_PRIO /\ PrioOrdered(f)}
  /\ state \in {f \in [Tasks -> task_state_t] : f[idle_task] = READY}
  /\ pc = "boot"
  /\ cpu = NULL
  /\ frame = NoFrame
  /\ tcb = NoTcb
  /\ last = Op("none", NULL, NULL, <<>>)

\* ------------------------------------------------------------------------
\* The calls
\* ------------------------------------------------------------------------
call_sched_init ==
  /\ pc \in {"boot", "ready"}
  /\ Commit(sched_init(Mem))
  /\ pc' = "ready"
  /\ last' = Op("init", NULL, NULL, <<>>)
  /\ UNCHANGED <<layout, state, prio>>
  /\ UNCHANGED <<cpu, frame, tcb>>

call_sched_add_task(task) ==
  /\ pc = "ready"
  /\ Commit(sched_add_task(Mem, task))
  /\ last' = Op("add", task, NULL, <<ReadSlot(prio[task])>>)
  /\ UNCHANGED <<layout, state, prio, pc>>
  /\ UNCHANGED <<cpu, frame, tcb>>

call_sched_remove_task(task) ==
  /\ pc = "ready"
  /\ Commit(sched_remove_task(Mem, task))
  /\ last' = Op("remove", task, NULL, <<ReadSlot(prio[task])>>)
  /\ UNCHANGED <<layout, state, prio, pc>>
  /\ UNCHANGED <<cpu, frame, tcb>>

\* a sched_run that switches first and updates the new task's state and the
\* current-task pointer after the switch
sched_run_switch_first ==
  /\ pc = "ready"
  /\ LET prev_task == sched_get_current_task
         new_task == sched_get_next_task
     IN IF new_task = DIVERGES
          THEN /\ pc' = "hang"
               /\ last' = Op("run", prev_task, DIVERGES, <<>>)
               /\ UNCHANGED <<run_queue, current_task, beyond, state, cpu>>
          ELSE /\ sched_switch(prev_task, new_task)
               /\ last' = Op("run", prev_task, new_task,
                             <<current_task, state[new_task]>>)
               /\ state' = task_set_state(new_task, RUNNING)
               /\ Commit(sched_set_current_task(Mem, new_task))
  /\ UNCHANGED <<layout, prio, tcb>>

\* a sched_run that also puts the outgoing task back to READY
sched_run_requeue ==
  /\ pc = "ready"
  /\ LET prev_task == sched_get_current_task
         new_task == sched_get_next_task
     IN IF new_task = DIVERGES
          THEN /\ pc' = "hang"
               /\ last' = Op("run", prev_task, DIVERGES, <<>>)
               /\ UNCHANGED <<run_queue, current_task, beyond, state, cpu>>
          ELSE /\ state' = [state EXCEPT ![new_task] = RUNNING,
                                         ![prev_task] = READY]
               /\ Commit(sched_set_current_task(Mem, new_task))
               /\ sched_switch(prev_task, new_task)
               /\ last' = Op("run", prev_task, new_task,
                             <<current_task', state'[new_task]>>)
  /\ UNCHANGED <<layout, prio, tcb>>

\* a sched_run that records the outgoing task as the current one
sched_run_stale_current ==
  /\ pc = "ready"
  /\ LET prev_task == sched_get_current_task
         new_task == sched_get_next_task
     IN IF new_task = DIVERGES
          THEN /\ pc' = "hang"
               /\ last' = Op("run", prev_task, DIVERGES, <<>>)
               /\ UNCHANGED <<run_queue, current_task, beyond, state, cpu>>
          ELSE /\ state' = task_set_state(new_task, RUNNING)
               /\ Commit(sched_set_current_task(Mem, prev_task))
               /\ sched_switch(prev_task, new_task)
               /\ last' = Op("run", prev_task, new_task,
                             <<current_task', state'[new_task]>>)
  /\ UNCHANGED <<layout, prio, tcb>>

\* a sched_run that takes the task it selects out of the run queue
sched_run_dequeue ==
  /\ pc = "ready"
  /\ LET prev_task == sched_get_current_task
         new_task == sched_get_next_task
     IN IF new_task = DIVERGES
          THEN /\ pc' = "hang"
               /\ last' = Op("run", prev_task, DIVERGES, <<>>)
               /\ UNCHANGED <<run_queue, current_task, beyond, state, cpu>>
          ELSE /\ state' = task_set_state(new_task, RUNNING)
               /\ Commit(sched_set_current_task(
                           sched_remove_task(Mem, new_task), new_task))
               /\ sched_switch(prev_task, new_task)
               /\ last' = Op("run", prev_task, new_task,
                             <<current_task', state'[new_task]>>)
  /\ UNCHANGED <<layout, prio, tcb>>

\* prev_task = sched_get_current_task(); new_task = sched_get_next_task();
\* task_set_state(new_task, RUNNING); sched_set_current_task(new_task);
\* sched_switch(prev_task, new_task).  When sched_get_next_task never
\* returns, neither does sched_run.  The locals live in registers: frame is
\* left to the caller, which says whether the call runs undisturbed.
sched_run ==
  /\ pc = "ready"
  /\ LET prev_task == sched_get_current_task
         new_task == sched_get_next_task
     IN IF new_task = DIVERGES
          THEN /\ pc' = "hang"
               /\ last' = Op("run", prev_task, DIVERGES, <<>>)
               /\ UNCHANGED <<run_queue, current_task, beyond, state, cpu>>
          ELSE /\ state' = task_set_state(new_task, RUNNING)
               /\ Commit(sched_set_current_task(Mem, new_task))
               /\ sched_switch(prev_task, new_task)
               /\ last' = Op("run", prev_task, new_task,
                             <<current_task', state'[new_task]>>)
  /\ UNCHANGED <<layout, prio, tcb>>

\* a caller of sched_run, with interrupts disabled for the whole call
call_sched_run == sched_run /\ UNCHANGED frame

\* a caller of sched_get_next_task, which keeps what it returns
call_sched_get_next_task ==
  /\ pc = "ready"
  /\ LET task == sched_get_next_task
     IN /\ pc' = IF task = DIVERGES THEN "hang" ELSE pc
        /\ last' = Op("get_next", NULL, task, <<>>)
  /\ UNCHANGED <<run_queue, current_task, beyond, layout, state, prio>>
  /\ UNCHANGED <<cpu, frame, tcb>>

\* a caller of sched_get_current_task, which keeps what it returns
call_sched_get_current_task ==
  /\ pc = "ready"
  /\ last' = Op("get_current", NULL, sched_get_current_task, <<>>)
  /\ UNCHANGED <<run_queue, current_task, beyond, layout, state, prio, pc>>
  /\ UNCHANGED <<cpu, frame, tcb>>

\* a caller of sched_set_current_task other than sched_run
call_sched_set_current_task(task) ==
  /\ pc = "ready"
  /\ Commit(sched_set_current_task(Mem, task))
  /\ last' = Op("set_current", task, NULL, <<current_task>>)
  /\ UNCHANGED <<layout, state, prio, pc>>
  /\ UNCHANGED <<cpu, frame, tcb>>

\* a caller of task_set_state other than sched_run (yield, block, wake)
call_task_set_state(task, new_state) ==
  /\ pc = "ready"
  /\ state' = task_set_state(task, new_state)
  /\ last' = Op("set_state", NULL, NULL, <<>>)
  /\ UNCHANGED <<run_queue, current_task, beyond, layout, prio, pc>>
  /\ UNCHANGED <<cpu, frame, tcb>>

Next ==
  \/ call_sched_init
  \/ \E task \in Tasks : call_sched_add_task(task)
  \/ \E task \in Tasks : call_sched_remove_task(task)
  \/ call_sched_run
  \/ call_sched_get_next_task
  \/ call_sched_get_current_task
  \/ \E task \in Tasks : call_sched_set_current_task(task)
  \/ \E task \in Tasks, new_state \in task_state_t :
       call_task_set_state(task, new_state)

Spec == Init /\ [][Next]_vars

\* the scheduler's own operations, without the callers that write a task's
\* state or the current-task pointer themselves
NextSched ==
  \/ call_sched_init
  \/ \E task \in Tasks : call_sched_add_task(task)
  \/ \E task \in Tasks : call_sched_remove_task(task)
  \/ call_sched_run
  \/ call_sched_get_next_task
  \/ call_sched_get_current_task

SpecSched == Init /\ [][NextSched]_vars

\* sequences of add and remove calls that never pass the idle task to
\* sched_remove_task, and the calls of sched_get_next_task among them
NextKeepIdle ==
  \/ call_sched_init
  \/ \E task \in Tasks : call_sched_add_task(task)
  \/ \E task \in Tasks \ {idle_task} : call_sched_remove_task(task)
  \/ call_sched_get_next_task

SpecKeepIdle == Init /\ [][NextKeepIdle]_vars

\* ------------------------------------------------------------------------
\* A system booted in the documented way: the boot context calls sched_init
\* once and from then on is the idle task, every task has a priority below
\* MAX_PRIO and starts READY
\* ------------------------------------------------------------------------
InitBoot ==
  /\ run_queue = [p \in Slots |-> NULL]
  /\ current_task = NULL
  /\ beyond = NULL
  /\ layout \in {"current_task", "other"}
  /\ prio \in {f \in [Tasks -> UserPrios \cup {IDLE_PRIO}] :
                 /\ f[idle_task] = IDLE_PRIO
                 /\ PrioOrdered(f)
                 /\ \A t \in Tasks : f[t] < MAX_PRIO}
  /\ state = [t \in Tasks |-> READY]
  /\ pc = "boot"
  /\ cpu = idle_task
  /\ frame = NoFrame
  /\ tcb = NoTcb
  /\ last = Op("none", NULL, NULL, <<>>)

\* sched_init called by the boot code, once
boot_sched_init == pc = "boot" /\ call_sched_init

\* ------------------------------------------------------------------------
\* sched_run with interrupts enabled: an interrupt is taken between the
\* selection and the rest of the function
\* ------------------------------------------------------------------------
\* the core is free to run task code: no sched_run is half done in the
\* context that executes
TaskCode ==
  \/ frame.at = "none"
  \/ frame.at = "interrupted" /\ cpu # frame.prev_task

\* prev_task = sched_get_current_task(); new_task = sched_get_next_task()
sched_run_select ==
  /\ pc = "ready"
  /\ frame.at = "none"
  /\ LET prev_task == sched_get_current_task
         new_task == sched_get_next_task
     IN IF new_task = DIVERGES
          THEN /\ pc' = "hang"
               /\ last' = Op("run", prev_task, DIVERGES, <<>>)
               /\ frame' = frame
          ELSE /\ pc' = pc
               /\ last' = Op("select", prev_task, new_task, <<>>)
               /\ frame' = [at |-> "selected", prev_task |-> prev_task,
                            new_task |-> new_task]
  /\ UNCHANGED <<run_queue, current_task, beyond, layout, state, prio, cpu,
                 tcb>>

\* the interrupt handler, entered after the selection, calls sched_add_task
interrupt_add(task) ==
  /\ pc = "ready"
  /\ frame.at = "selected"
  /\ Commit(sched_add_task(Mem, task))
  /\ last' = Op("add", task, NULL, <<ReadSlot(prio[task])>>)
  /\ frame' = [frame EXCEPT !.at = "handler"]
  /\ UNCHANGED <<layout, state, prio, pc, cpu, tcb>>

\* ... and then sched_run, which switches away from the interrupted context
interrupt_run ==
  /\ frame.at = "handler"
  /\ sched_run
  /\ frame' = [frame EXCEPT !.at = "interrupted"]

\* task_set_state(new_task, RUNNING); sched_set_current_task(new_task);
\* sched_switch(prev_task, new_task), with the locals read before: at once
\* when no interrupt came, and when the interrupted context is loaded again
\* otherwise
sched_run_finish ==
  /\ pc = "ready"
  /\ \/ frame.at = "selected"
     \/ frame.at = "interrupted" /\ cpu = frame.prev_task
  /\ LET prev_task == frame.prev_task
         new_task == frame.new_task
     IN /\ state' = task_set_state(new_task, RUNNING)
        /\ Commit(sched_set_current_task(Mem, new_task))
        /\ sched_switch(prev_task, new_task)
        /\ last' = Op(IF frame.at = "interrupted" THEN "run_resumed"
                      ELSE "run",
                      prev_task, new_task,
                      <<current_task', state'[new_task]>>)
  /\ frame' = NoFrame
  /\ UNCHANGED <<layout, prio, tcb>>

NextPreempt ==
  \/ boot_sched_init
  \/ \E task \in UserTasks : TaskCode /\ call_sched_add_task(task)
  \/ \E task \in UserTasks : TaskCode /\ call_sched_remove_task(task)
  \/ TaskCode /\ call_sched_run
  \/ sched_run_select
  \/ \E task \in UserTasks : interrupt_add(task)
  \/ interrupt_run
  \/ sched_run_finish

SpecPreempt == InitBoot /\ [][NextPreempt]_vars

\* ------------------------------------------------------------------------
\* The booted system with every operation run with interrupts disabled and
\* no caller of sched_set_current_task besides sched_run
\* ------------------------------------------------------------------------
NextBoot ==
  \/ boot_sched_init
  \/ \E task \in Tasks : call_sched_add_task(task)
  \/ \E task \in Tasks : call_sched_remove_task(task)
  \/ call_sched_run
  \/ call_sched_get_next_task
  \/ call_sched_get_current_task
  \/ \E task \in Tasks, new_state \in task_state_t :
       call_task_set_state(task, new_state)

SpecBoot == InitBoot /\ [][NextBoot]_vars

\* ------------------------------------------------------------------------
\* Callers that keep the protocol around sched_run: the executing task sets
\* its own state to READY (yield), or to BLOCKED and takes itself out of
\* the run queue (block), and then calls sched_run.  frame.at tells how far
\* the caller has come.
\* ------------------------------------------------------------------------
yield_set_state ==
  /\ pc = "ready"
  /\ frame.at = "none"
  /\ state' = task_set_state(sched_get_current_task, READY)
  /\ frame' = [frame EXCEPT !.at = "yield"]
  /\ last' = Op("set_state", NULL, NULL, <<>>)
  /\ UNCHANGED <<run_queue, current_task, beyond, layout, prio, pc, cpu, tcb>>

block_set_state ==
  /\ pc = "ready"
  /\ frame.at = "none"
  /\ state' = task_set_state(sched_get_current_task, BLOCKED)
  /\ frame' = [frame EXCEPT !.at = "block"]
  /\ last' = Op("set_state", NULL, NULL, <<>>)
  /\ UNCHANGED <<run_queue, current_task, beyond, layout, prio, pc, cpu, tcb>>

block_remove ==
  /\ pc = "ready"
  /\ frame.at = "block"
  /\ Commit(sched_remove_task(Mem, sched_get_current_task))
  /\ frame' = [frame EXCEPT !.at = "blocked"]
  /\ last' = Op("remove", sched_get_current_task, NULL,
                <<ReadSlot(prio[sched_get_current_task])>>)
  /\ UNCHANGED <<layout, state, prio, pc, cpu, tcb>>

protocol_run ==
  /\ frame.at \in {"yield", "blocked"}
  /\ sched_run
  /\ frame' = NoFrame

NextProtocol ==
  \/ boot_sched_init
  \/ \E task \in Tasks : frame.at = "none" /\ call_sched_add_task(task)
  \/ \E task \in Tasks : frame.at = "none" /\ call_sched_remove_task(task)
  \/ frame.at = "none" /\ call_sched_get_current_task
  \/ yield_set_state
  \/ block_set_state
  \/ block_remove
  \/ protocol_run

SpecProtocol == InitBoot /\ [][NextProtocol]_vars

\* ------------------------------------------------------------------------
\* Task construction: task_create (kernel/task.c) and task_stack_init
\* (arch/task_arch.c), each applied to one control block and one stack
\* ------------------------------------------------------------------------
AX_OK == "AX_OK"

\* what a double word holds that nothing has written: some number
UNINIT == 0 - 1

\* the addresses of the functions task_runtime and _ret_from_interrupt
task_runtime == 16384

ret_from_interrupt == 16640

\* common.h and offsets.h: the sizes of a double and a long word, and the
\* register frames in the order of the layout drawn above task_stack_init,
\* every slot one double word
DWORD_SIZE == 8

LWORD_SIZE == 16

KERNEL_STACK_FRAME_MEPC == 0

KERNEL_STACK_FRAME_RA == 8

KERNEL_STACK_FRAME_LENGTH == 16

CALLER_STACK_FRAME_T0 == 0

CALLER_STACK_FRAME_T1 == 8

CALLER_STACK_FRAME_T2 == 16

CALLER_STACK_FRAME_T3 == 24

CALLER_STACK_FRAME_T4 == 32

CALLER_STACK_FRAME_T5 == 40

CALLER_STACK_FRAME_T6 == 48

CALLER_STACK_FRAME_A0 == 56

CALLER_STACK_FRAME_A1 == 64

CALLER_STACK_FRAME_A2 == 72

CALLER_STACK_FRAME_A3 == 80

CALLER_STACK_FRAME_A4 == 88

CALLER_STACK_FRAME_A5 == 96

CALLER_STACK_FRAME_A6 == 104

CALLER_STACK_FRAME_A7 == 112

CALLER_STACK_FRAME_LENGTH == 128

CALLEE_STACK_FRAME_S0 == 0

CALLEE_STACK_FRAME_S1 == 8

CALLEE_STACK_FRAME_S2 == 16

CALLEE_STACK_FRAME_S3 == 24

CALLEE_STACK_FRAME_S4 == 32

CALLEE_STACK_FRAME_S5 == 40

CALLEE_STACK_FRAME_S6 == 48

CALLEE_STACK_FRAME_S7 == 56

CALLEE_STACK_FRAME_S8 == 64

CALLEE_STACK_FRAME_S9 == 72

CALLEE_STACK_FRAME_S10 == 80

CALLEE_STACK_FRAME_S11 == 88

CALLEE_STACK_FRAME_LENGTH == 96

\* offsetof(task_t, thread.sp): task_id, prio and state fill two double
\* words, thread.ra the third
TASK_THREAD_SP == 24

\* the stacks, entry functions and priorities the callers pass: stacks are
\* arrays of uint64_t, so their addresses and sizes are multiples of 8
StackBases == {4096, 4104}

StackSizes == {16, 280, 304, 512, 520}

EntryFns == {32768, 32772}

PrioArgs == {0, 254, 255}

\* the priorities found in a control block before it is created
StalePrios == {0, 7}

\* STACK_SIZE, the macro of common.h: the size this build gives every stack
STACK_SIZE == tcb.stack_size

\* task->task_id = {0, 0}; task->thread.ra = fn;
\* task->thread.sp = stack + STACK_SIZE - 1; task->thread.s[0..11] = 0;
\* return AX_OK
task_create(task, fn, stack) ==
  [ret |-> AX_OK,
   task |-> [task EXCEPT !.task_id = [vms_id |-> 0, thread_id |-> 0],
                         !.thread = [ra |-> fn,
                                     sp |-> stack + STACK_SIZE - 1,
                                     s |-> [i \in 0..11 |-> 0]]]]

\* &task->thread.sp, task being (task_t *)stack
SpAddr(stack) == stack + TASK_THREAD_SP

\* the three kinds of statement of task_stack_init:
\* task->thread.sp = v; task->thread.sp -= n;
\* *(uint64_t *)(task->thread.sp + off) = val
SetSp(v) == [kind |-> "set", n |-> v, val |-> 0]

DecSp(n) == [kind |-> "dec", n |-> n, val |-> 0]

StoreAt(off, val) == [kind |-> "store", n |-> off, val |-> val]

KernelStores ==
   <<StoreAt(KERNEL_STACK_FRAME_MEPC, task_runtime),
     StoreAt(KERNEL_STACK_FRAME_RA, 0)>>

CallerStores(task_entry) ==
   <<StoreAt(CALLER_STACK_FRAME_T0, 0),
     StoreAt(CALLER_STACK_FRAME_T1, 0),
     StoreAt(CALLER_STACK_FRAME_T2, 0),
     StoreAt(CALLER_STACK_FRAME_T3, 0),
     StoreAt(CALLER_STACK_FRAME_T4, 0),
     StoreAt(CALLER_STACK_FRAME_T5, 0),
     StoreAt(CALLER_STACK_FRAME_T6, 0),
     StoreAt(CALLER_STACK_FRAME_A0, task_entry),
     StoreAt(CALLER_STACK_FRAME_A1, 0),
     StoreAt(CALLER_STACK_FRAME_A2, 0),
     StoreAt(CALLER_STACK_FRAME_A3, 0),
     StoreAt(CALLER_STACK_FRAME_A4, 0),
     StoreAt(CALLER_STACK_FRAME_A5, 0),
     StoreAt(CALLER_STACK_FRAME_A6, 0),
     StoreAt(CALLER_STACK_FRAME_A7, 0)>>

CalleeStores ==
   <<StoreAt(CALLEE_STACK_FRAME_S0, 0),
     StoreAt(CALLEE_STACK_FRAME_S1, 0),
     StoreAt(CALLEE_STACK_FRAME_S2, 0),
     StoreAt(CALLEE_STACK_FRAME_S3, 0),
     StoreAt(CALLEE_STACK_FRAME_S4, 0),
     StoreAt(CALLEE_STACK_FRAME_S5, 0),
     StoreAt(CALLEE_STACK_FRAME_S6, 0),
     StoreAt(CALLEE_STACK_FRAME_S7, 0),
     StoreAt(CALLEE_STACK_FRAME_S8, 0),
     StoreAt(CALLEE_STACK_FRAME_S9, 0),
     StoreAt(CALLEE_STACK_FRAME_S10, 0),
     StoreAt(CALLEE_STACK_FRAME_S11, 0)>>

\* a task_stack_init that reserves no long word for _ret_from_interrupt
task_stack_init_no_ret_word(stack, stack_size, task_entry) ==
  <<SetSp(stack + stack_size - LWORD_SIZE),
    DecSp(KERNEL_STACK_FRAME_LENGTH)>> \o KernelStores \o
  <<DecSp(CALLER_STACK_FRAME_LENGTH)>> \o CallerStores(task_entry) \o
  <<StoreAt(DWORD_SIZE, ret_from_interrupt),
    DecSp(CALLEE_STACK_FRAME_LENGTH)>> \o CalleeStores

\* the statements of task_stack_init, in their order
task_stack_init(stack, stack_size, task_entry) ==
  <<SetSp(stack + stack_size - LWORD_SIZE),
    DecSp(KERNEL_STACK_FRAME_LENGTH)>> \o KernelStores \o
  <<DecSp(CALLER_STACK_FRAME_LENGTH)>> \o CallerStores(task_entry) \o
  <<DecSp(LWORD_SIZE),
    StoreAt(DWORD_SIZE, ret_from_interrupt),
    DecSp(CALLEE_STACK_FRAME_LENGTH)>> \o CalleeStores

\* the double word at addr, in the memory mem the statements have written
Load(mem, addr) == IF addr \in DOMAIN mem THEN mem[addr] ELSE UNINIT

\* one statement executed on the memory mem: task->thread.sp is the double
\* word at SpAddr(stack), read and written there like any other
Exec(mem, stack, stmt) ==
  LET sp == Load(mem, SpAddr(stack))
  IN CASE stmt.kind = "set" -> (SpAddr(stack) :> stmt.n) @@ mem
       [] stmt.kind = "dec" -> (SpAddr(stack) :> (sp - stmt.n)) @@ mem
       [] stmt.kind = "store" -> ((sp + stmt.n) :> stmt.val) @@ mem

\* a control block nothing has initialised, a stack, and the arguments of
\* the call to come
InitTask ==
  /\ run_queue = [p \in Slots |-> NULL]
  /\ current_task = NULL
  /\ beyond = NULL
  /\ layout = "other"
  /\ prio = [t \in Tasks |-> IDLE_PRIO]
  /\ state = [t \in Tasks |-> READY]
  /\ pc = "boot"
  /\ cpu = NULL
  /\ frame = NoFrame
  /\ last = Op("none", NULL, NULL, <<>>)
  /\ tcb \in {[op |-> "none", ip |-> 0, ret |-> NULL, mem |-> <<>>,
               log |-> <<>>,
               task |-> [task_id |-> UNINIT, prio |-> p, state |-> st,
                         thread |-> [ra |-> UNINIT, sp |-> UNINIT,
                                     s |-> UNINIT]],
               stack |-> b, stack_size |-> z, fn |-> f, prio_arg |-> q] :
                p \in StalePrios, st \in task_state_t, b \in StackBases,
                z \in StackSizes, f \in EntryFns, q \in PrioArgs}

\* a caller of task_create: the definition takes the control block, the
\* function and the stack; the priority the caller means the task to have
\* (the last parameter of the declaration in task.h) does not reach it
call_task_create ==
  /\ tcb.op = "none"
  /\ LET r == task_create(tcb.task, tcb.fn, tcb.stack)
     IN tcb' = [tcb EXCEPT !.op = "task_create", !.ret = r.ret,
                           !.task = r.task]
  /\ UNCHANGED <<run_queue, current_task, beyond, layout, state, prio, pc,
                 cpu, frame, last>>

\* a caller of task_stack_init, at its entry; the control block is the one
\* at the base of the stack
call_task_stack_init ==
  /\ tcb.op = "none"
  /\ tcb' = [tcb EXCEPT !.op = "task_stack_init", !.ip = 1]
  /\ UNCHANGED <<run_queue, current_task, beyond, layout, state, prio, pc,
                 cpu, frame, last>>

\* the next statement of task_stack_init; log keeps the addresses of the
\* register slots in the order they are written
step_task_stack_init ==
  /\ tcb.op = "task_stack_init"
  /\ LET stmts == task_stack_init(tcb.stack, tcb.stack_size, tcb.fn)
     IN /\ tcb.ip <= Len(stmts)
        /\ LET stmt == stmts[tcb.ip]
           IN tcb' = [tcb EXCEPT
                        !.ip = tcb.ip + 1,
                        !.mem = Exec(tcb.mem, tcb.stack, stmt),
                        !.log = IF stmt.kind = "store"
                                  THEN Append(tcb.log,
                                              Load(tcb.mem, SpAddr(tcb.stack))
                                                + stmt.n)
                                  ELSE tcb.log,
                        !.ret = IF tcb.ip = Len(stmts) THEN "void" ELSE NULL]
  /\ UNCHANGED <<run_queue, current_task, beyond, layout, state, prio, pc,
                 cpu, frame, last>>

NextTask ==
  \/ call_task_create
  \/ call_task_stack_init
  \/ step_task_stack_init

SpecTask == InitTask /\ [][NextTask]_vars

\* ------------------------------------------------------------------------
\* Properties
\* ------------------------------------------------------------------------
\* the task t is stored in the run queue
Queued(t) == prio[t] < MAX_PRIO /\ run_queue[prio[t]] = t

\* C1: when at least one slot of the run queue is occupied,
\* sched_get_next_task returns the task stored in the highest-numbered
\* occupied slot.
C1_ReturnsHighestOccupied ==
  (last.op = "get_next" /\ \E p \in Slots : run_queue[p] # NULL) =>
    \E p \in Slots :
      /\ run_queue[p] # NULL
      /\ \A q \in Slots : q > p => run_queue[q] = NULL
      /\ last.ret = run_queue[p]

\* C1, its case: two tasks queued at priorities p1 < p2, and
\* sched_get_next_task has returned the one at p2
C1_Witness ==
  /\ last.op = "get_next"
  /\ \E t1 \in Tasks, t2 \in Tasks :
       /\ prio[t1] < prio[t2]
       /\ Queued(t1) /\ Queued(t2)
       /\ last.ret = t2

\* C2: in every sequence of add and remove calls that never passes the
\* idle task to sched_remove_task, sched_get_next_task returns a task (not
\* NULL, not nothing) that is stored in the run queue.
C2_ReturnsQueuedTask ==
  last.op = "get_next" =>
    /\ last.ret \in Tasks
    /\ \E p \in Slots : run_queue[p] = last.ret

\* C3: after sched_init, through add, remove and run, slot 0 holds the idle
\* task, whose priority is 0 and whose state is READY.
C3_IdleInSlotZero ==
  pc # "boot" =>
    /\ run_queue[IDLE_PRIO] = idle_task
    /\ prio[idle_task] = IDLE_PRIO
    /\ state[idle_task] = READY

\* the step is a call of sched_run that reached _switch_to
RunStep == last'.op = "run" /\ last'.ret # DIVERGES

\* C4: sched_run takes the current task at entry as previous and the result
\* of sched_get_next_task in the entry state as next; when _switch_to is
\* called with them the state of next is RUNNING and the current-task
\* pointer is next, and so they are after sched_run.
C4_SwitchAfterUpdate ==
  [][RunStep =>
       /\ last'.arg = current_task
       /\ last'.ret = sched_get_next_task
       /\ last'.note = <<last'.ret, RUNNING>>
       /\ current_task' = last'.ret
       /\ state'[last'.ret] = RUNNING]_vars

\* C4, its case: sched_run has switched from a task to another one, which
\* was not RUNNING for its caller and is now
C4_Witness ==
  /\ last.op = "run"
  /\ last.arg \in Tasks /\ last.ret \in Tasks /\ last.arg # last.ret
  /\ current_task = last.ret
  /\ state[last.ret] = RUNNING
  /\ state[last.arg] = READY

\* C5 as stated: sched_run leaves the state of the previous task as it was
\* and changes no slot of the run queue, whatever the run queue holds.
C5_PreviousStateKept ==
  [][(RunStep /\ last'.arg # NULL) =>
       /\ state'[last'.arg] = state[last'.arg]
       /\ run_queue' = run_queue]_vars

\* C5 amended: sched_run changes no slot of the run queue, and when the task
\* it selects is not the previous task it leaves the previous task's state
\* as it was.
C5_PreviousStateKeptUnlessSelected ==
  [][last'.op = "run" =>
       /\ run_queue' = run_queue
       /\ (last'.arg # NULL /\ last'.ret # last'.arg) =>
            state'[last'.arg] = state[last'.arg]]_vars

\* C5, its case: sched_run has switched away from a task its caller had
\* marked BLOCKED, and the task is still BLOCKED
C5_Witness ==
  /\ last.op = "run"
  /\ last.arg \in Tasks /\ last.ret \in Tasks /\ last.arg # last.ret
  /\ state[last.arg] = BLOCKED

\* the task t is in no slot while another task holds the slot of its priority
Displaced(t) ==
  /\ prio[t] < MAX_PRIO
  /\ run_queue[prio[t]] \notin {NULL, t}
  /\ \A p \in Slots : run_queue[p] # t

\* C6: after add(B) at a priority p where another task A was stored, slot p
\* holds B and no slot holds A; and from then on, while only
\* sched_get_next_task and sched_run are called, neither selects A and A
\* stays out of the queue.
C6_SecondAddDisplaces ==
  [][/\ (last'.op = "add" /\ prio[last'.arg] < MAX_PRIO) =>
          /\ run_queue'[prio[last'.arg]] = last'.arg
          /\ \A t \in Tasks \ {last'.arg} :
               prio[t] = prio[last'.arg] => \A p \in Slots : run_queue'[p] # t
     /\ last'.op \in {"get_next", "run"} =>
          \A t \in Tasks : Displaced(t) => (last'.ret # t /\ Displaced(t)')]_vars

\* C6, its case: add(B) has overwritten a slot that held another caller's
\* task A of the same priority
C6_Witness ==
  /\ last.op = "add"
  /\ last.note[1] \in UserTasks \ {last.arg}
  /\ prio[last.note[1]] = prio[last.arg]
  /\ Queued(last.arg)
  /\ Displaced(last.note[1])

\* C7: remove(task) with a priority inside the run queue empties the slot of
\* that priority whatever it held, and changes no other slot and not the
\* current-task pointer.
C7_RemoveByPriority ==
  [][(last'.op = "remove" /\ prio[last'.arg] < MAX_PRIO) =>
       /\ run_queue'[prio[last'.arg]] = NULL
       /\ \A p \in Slots \ {prio[last'.arg]} : run_queue'[p] = run_queue[p]
       /\ current_task' = current_task]_vars

\* C7, its case: remove(task) has emptied a slot that held another caller's
\* task of the same priority
C7_Witness ==
  /\ last.op = "remove"
  /\ last.note[1] \in UserTasks \ {last.arg}
  /\ prio[last.arg] < MAX_PRIO
  /\ run_queue[prio[last.arg]] = NULL

\* C8: a sched_get_next_task that follows remove(T), the slot of T's
\* priority being still empty, does not return T, also when T was the only
\* task in the queue.  Stated for the call that directly follows the remove.
C8_RemovedNotReturned ==
  [][(/\ last.op = "remove"
      /\ prio[last.arg] < MAX_PRIO
      /\ last'.op = "get_next") => last'.ret # last.arg]_vars

\* C9: sched_init, in whatever state it is called, sets the current-task
\* pointer and slot 0 to the idle task and leaves every other slot as it
\* was; a sched_init that follows a sched_init changes nothing; and a
\* sched_get_next_task that follows a sched_init which found the other slots
\* empty returns the idle task.
C9_InitResetsSlotZeroAndCurrent ==
  [][/\ last'.op = "init" =>
          /\ current_task' = idle_task
          /\ run_queue'[IDLE_PRIO] = idle_task
          /\ \A p \in Slots \ {IDLE_PRIO} : run_queue'[p] = run_queue[p]
          /\ last.op = "init" =>
               UNCHANGED <<run_queue, current_task, beyond, state, prio>>
     /\ (/\ last.op = "init"
         /\ last'.op = "get_next"
         /\ \A p \in Slots \ {IDLE_PRIO} : run_queue[p] = NULL) =>
          last'.ret = idle_task]_vars

\* C9, its case: sched_init has been called again (tasks are added only
\* after a first one) while a caller's task is queued above the idle level
\* and RUNNING; the idle task is current and the other slot is kept
C9_Witness ==
  /\ last.op = "init"
  /\ current_task = idle_task
  /\ \E t \in UserTasks : Queued(t) /\ prio[t] # IDLE_PRIO /\ state[t] = RUNNING

\* the step is a call of add or remove with a priority outside the run queue
OutOfRangeStep ==
  last'.op \in {"add", "remove"} /\ prio[last'.arg] >= MAX_PRIO

\* C10 as stated: after sched_init only sched_run changes the current-task
\* pointer; add, remove, get_next, get_current and set_current do not.
C10_OnlyRunMutatesCurrent ==
  [][(last'.op \notin {"init", "run"} /\ ~OutOfRangeStep) =>
       current_task' = current_task]_vars

\* C10 amended: sched_init sets the current-task pointer to the idle task,
\* set_current(task) sets it to task, and besides them and sched_run no
\* operation changes it: not add or remove with a priority inside the run
\* queue, not get_next, not get_current.
C10_MutatedByInitRunSetCurrent ==
  [][/\ last'.op = "init" => current_task' = idle_task
     /\ last'.op = "set_current" => current_task' = last'.arg
     /\ (last'.op \notin {"init", "run", "set_current"} /\ ~OutOfRangeStep) =>
          current_task' = current_task]_vars

\* C10, its case: set_current(task) has changed the task the pointer names
C10_Witness ==
  /\ last.op = "set_current"
  /\ current_task = last.arg
  /\ last.note[1] # current_task

\* the tasks marked RUNNING
Running == {t \in Tasks : state[t] = RUNNING}

\* the task t was switched to while another task occupied a higher slot, or
\* while t was not in the queue and another task was
NotHighestOccupant(t) ==
  \E u \in Tasks : Queued(u) /\ (~Queued(t) \/ prio[u] > prio[t])

\* the state after a sched_run whose switch went to a task that is not the
\* highest occupant, with more than one task marked RUNNING
Corrupted ==
  /\ last.op \in {"run", "run_resumed"}
  /\ last.ret \in Tasks
  /\ NotHighestOccupant(last.ret)
  /\ Cardinality(Running) > 1

\* C11: sched_run is not reentrant.  A sched_run that ends in the corrupted
\* state (switch to a task that is not the highest occupant, more than one
\* task RUNNING) is one that was interrupted between its selection and its
\* switch by a handler calling sched_add_task and sched_run: no sequence of
\* operations that run with interrupts disabled reaches that state.
C11_CorruptOnlyWhenPreempted == Corrupted => last.op = "run_resumed"

\* an interrupted sched_run has resumed and switched to the task it had
\* selected before the interrupt, the idle task, while the task that called
\* it sits in a higher slot; that task and the task the handler switched to
\* are both still RUNNING
C11_Witness ==
  /\ Corrupted
  /\ last.op = "run_resumed"
  /\ last.ret = idle_task
  /\ current_task = last.ret
  /\ Queued(last.arg)
  /\ \A u \in UserTasks : prio[u] > prio[idle_task]
  /\ Running = Tasks

\* C12: when task_create succeeds, the task's state is READY and its
\* priority is the one the caller asked for, for every priority below
\* MAX_PRIO.
C12_CreatedReadyWithPriority ==
  (tcb.op = "task_create" /\ tcb.ret = AX_OK /\ tcb.prio_arg \in Slots)
    => (tcb.task.state = READY /\ tcb.task.prio = tcb.prio_arg)

\* C13: task_create fails exactly when the priority asked for is not below
\* MAX_PRIO, and a task whose creation failed is not in the run queue.
C13_FailsExactlyOutOfRange ==
  tcb.op = "task_create"
    => /\ tcb.ret # AX_OK <=> tcb.prio_arg \notin Slots
       /\ tcb.ret # AX_OK => \A p \in Slots : run_queue[p] = NULL

\* task_stack_init has returned
Finished == tcb.op = "task_stack_init" /\ tcb.ret = "void"

\* task->thread.sp as the call left it
ThreadSp ==
  IF tcb.op = "task_create" THEN tcb.task.thread.sp
  ELSE Load(tcb.mem, SpAddr(tcb.stack))

\* C14: for every stack address and stack size, the initial thread.sp that
\* task_stack_init and task_create compute is a multiple of 16.
C14_InitialSpAligned ==
  (tcb.op = "task_create" \/ Finished) => ThreadSp % 16 = 0

\* the registers a resume from thread.sp loads: _switch_to pops the
\* callee-saved frame, sched_switch returns through the word kept in the
\* long word above it, _ret_from_interrupt pops the caller-saved frame and
\* reads the kernel frame
Resume ==
  LET callee == ThreadSp
      ret == callee + CALLEE_STACK_FRAME_LENGTH
      caller == ret + LWORD_SIZE
      kernel == caller + CALLER_STACK_FRAME_LENGTH
  IN [s |-> [i \in 1..Len(CalleeStores) |->
               Load(tcb.mem, callee + CalleeStores[i].n)],
      target |-> Load(tcb.mem, ret + DWORD_SIZE),
      ta |-> [i \in 1..Len(CallerStores(0)) |->
                Load(tcb.mem, caller + CallerStores(0)[i].n)],
      mepc |-> Load(tcb.mem, kernel + KERNEL_STACK_FRAME_MEPC),
      ra |-> Load(tcb.mem, kernel + KERNEL_STACK_FRAME_RA)]

\* the resume finds s0..s11 zero, the interrupt-return trampoline as resume
\* target, a0 = the entry function and every other caller-saved register
\* zero, task_runtime in the MEPC slot and zero in the RA slot
RoundTrip ==
  LET r == Resume
  IN /\ \A i \in DOMAIN r.s : r.s[i] = 0
     /\ r.target = ret_from_interrupt
     /\ \A i \in DOMAIN r.ta :
          r.ta[i] = IF CallerStores(0)[i].n = CALLER_STACK_FRAME_A0
                      THEN tcb.fn ELSE 0
     /\ r.mepc = task_runtime
     /\ r.ra = 0

\* no two written double words overlap, thread.sp among them
NoOverlap ==
  /\ \A i, j \in DOMAIN tcb.log : i # j => tcb.log[i] # tcb.log[j]
  /\ \A i \in DOMAIN tcb.log : tcb.log[i] # SpAddr(tcb.stack)

\* every register slot written lies in the stack
Inside ==
  \A i \in DOMAIN tcb.log :
    /\ tcb.stack <= tcb.log[i]
    /\ tcb.log[i] + DWORD_SIZE <= tcb.stack + tcb.stack_size

\* the smallest stack that holds the part of the control block
\* task_stack_init writes, the frames and the long word left free on top
MinStackSize ==
  TASK_THREAD_SP + DWORD_SIZE + CALLEE_STACK_FRAME_LENGTH + LWORD_SIZE
    + CALLER_STACK_FRAME_LENGTH + KERNEL_STACK_FRAME_LENGTH + LWORD_SIZE

\* C15 as stated: after task_stack_init(stack, size, f), for every size,
\* the resume round trip holds, no written slot overlaps another and all
\* slots lie in [stack, stack + size).
C15_RoundTripAnySize == Finished => (RoundTrip /\ NoOverlap /\ Inside)

\* C15, amended: the same for every size of at least MinStackSize.
C15_RoundTripWhenLargeEnough ==
  (Finished /\ tcb.stack_size >= MinStackSize)
    => (RoundTrip /\ NoOverlap /\ Inside)

\* task_stack_init has built the frames in the smallest stack that holds
\* them, and the resume finds the entry function in a0
C15_Witness ==
  /\ Finished
  /\ tcb.stack_size = MinStackSize
  /\ Len(tcb.log) = Len(KernelStores) + Len(CallerStores(0)) + 1
                      + Len(CalleeStores)
  /\ \E i \in DOMAIN Resume.ta : Resume.ta[i] = tcb.fn
  /\ Resume.target = ret_from_interrupt

\* C16: every access of sched_add_task, sched_remove_task and
\* sched_get_next_task to run_queue uses an index in 0 .. MAX_PRIO-1, for
\* every value of the 8-bit priority and every content of the queue; the
\* scan index never wraps from 0 to 255.
C16_IndexInRange ==
  /\ last.op \in {"add", "remove"} => prio[last.arg] \in Slots
  /\ last.op = "get_next" => ScanAccesses \subseteq Slots

\* C17: sched_get_next_task and sched_run never select a task whose state
\* is BLOCKED, also when the task is still in its slot.
C17_NeverSelectsBlocked ==
  [][(last'.op \in {"get_next", "run"} /\ last'.ret \in Tasks)
       => state[last'.ret] # BLOCKED]_vars

\* C18: with sched_init called once from the boot context, which is the
\* idle task from then on, every operation run to its end and no
\* sched_set_current_task outside sched_run, sched_get_current_task returns
\* the task whose code executes.
C18_CurrentIsExecuting == pc # "boot" => sched_get_current_task = cpu

\* a task of a caller executes, switched to by sched_run, and has called
\* sched_get_current_task
C18_Witness ==
  /\ cpu \in UserTasks
  /\ last.op = "get_current"
  /\ last.ret = cpu
  /\ state[cpu] = RUNNING

C20_RunTwiceSelectsSame ==
  [][/\ (last.op = "run" /\ RunStep) =>
          /\ last'.ret = last.ret
          /\ last'.arg = last'.ret
          /\ UNCHANGED <<run_queue, current_task, beyond, state>>
     /\ (RunStep /\ last'.ret \in Tasks) =>
          \A u \in Tasks : Queued(u) =>
            (Queued(last'.ret) /\ prio[u] <= prio[last'.ret])]_vars

\* a second sched_run in a row has switched from a caller's task to itself,
\* with the idle task waiting in a lower slot
C20_Witness ==
  /\ last.op = "run"
  /\ last.arg = last.ret
  /\ last.ret \in UserTasks
  /\ Queued(last.ret)
  /\ Queued(idle_task)
  /\ prio[last.ret] > prio[idle_task]
  /\ state[last.ret] = RUNNING

=============================================================================
